---- MODULE Spec2Model ----
(***************************************************************************)
(* Distance-field representations of the space-filling library:            *)
(*   - Argmax2D, the discrete distance field (DDF) stored in tiles with a  *)
(*     cached per-tile argmax (src/solver/argmax2d);                       *)
(*   - ADF, the quadtree of primitive buckets (src/solver/adf);            *)
(*   - the placement drivers built on them (lib.rs, tests.rs, examples).   *)
(* World coordinates and distances are fixed-point integers: 1.0 is One.   *)
(***************************************************************************)
EXTENDS Integers, Sequences, FiniteSets, TLC

VARIABLES
  result,        \* outcome of Argmax2D::new: "none" | "ok" | "err" | "panic"
  resolution,    \* ZOrderStorage.resolution
  chunk_size,    \* ZOrderStorage.chunk_size
  dist_map,      \* ZOrderStorage.data, chunk-major linear storage
  chunk_argmax,  \* Argmax2D.chunk_argmax
  panicked,      \* an operation of the DDF has panicked
  inserted,      \* history: primitives passed to insert_sdf / insert_sdf_domain
  applied,       \* history: per chunk, the primitives whose span covered it
  ninvert,       \* history: number of invert() calls
  nops,          \* history: number of operations since construction
  iter_done,     \* ArgmaxIter::build: the take_while has seen a maximum it refused
  last,          \* history: the last operation and what it observed
  placed,        \* shapes produced by the placement driver, in order
  oracle,        \* "none" before ADF::new; "gd": sdf_partialord; "exact"
  tree,          \* ADF.tree: node path -> [data, children]
  max_depth,     \* Quadtree.max_depth
  ipm_gd_lattice_density,  \* ADF.ipm_gd_lattice_density
  change_exists, \* value returned by the last ADF insert_sdf_domain
  tree_before,   \* history: ADF.tree before the last insert_sdf_domain
  adf_inserted,  \* history: primitives given to ADF::new and to the insertions
  adf_init,      \* history: the bucket given to ADF::new
  covered,       \* history: every domain covered the leaves its primitive lowers
  adf_ops,       \* history: number of ADF insertions
  batch,         \* maxima of the current find_max_parallel batch not yet consumed
  pulled,        \* history: the last find_max_parallel call of local_maxima_iter
  candidates,    \* history: candidates of the ADF driver with their insert result
  adf_panicked,  \* an operation of the ADF has panicked
  par_call,      \* the parallel call in flight: its tasks and what the workers did
  search         \* the LineSearch::optimize call in flight: its loop state

ddfvars == <<result, resolution, chunk_size, dist_map, chunk_argmax, panicked,
             inserted, applied, ninvert, nops, iter_done>>
adfvars == <<oracle, tree, max_depth, ipm_gd_lattice_density, change_exists,
             tree_before, adf_inserted, adf_init, covered, adf_ops, batch,
             pulled, candidates, adf_panicked>>
runvars == <<par_call, search>>
vars == <<ddfvars, last, placed, adfvars, runvars>>

----------------------------------------------------------------------------
(* Bounds of the model *)

MaxOps == 2
MaxPlaced == 2
MaxAdfOps == 2
MaxCand == 3
MaxFractal == 40

(* Fixed-point representation of 1.0, the side of the unit square. *)
One == 256

(* f32::MAX / 2.0, the initial value of every cell. *)
Sentinel == 100000

Resolutions == {2, 4}
ChunkSizes == {0, 1, 2, 3}

----------------------------------------------------------------------------
(* Arithmetic helpers *)

Abs(a) == IF a < 0 THEN -a ELSE a
Min2(a, b) == IF a <= b THEN a ELSE b
Max2(a, b) == IF a >= b THEN a ELSE b
FloorDiv(a, b) == a \div b
CeilDiv(a, b) == -((-a) \div b)

(* floor of the square root, by bisection on [lo, hi) *)
RECURSIVE IsqrtIn(_, _, _)
IsqrtIn(n, lo, hi) ==
  IF hi - lo <= 1 THEN lo
  ELSE LET mid == (lo + hi) \div 2
       IN IF mid * mid <= n THEN IsqrtIn(n, mid, hi) ELSE IsqrtIn(n, lo, mid)

Isqrt(n) ==
  IF n < 65536 THEN IsqrtIn(n, 0, Min2(n, 255) + 1)
  ELSE IF n < 16777216 THEN IsqrtIn(n, 256, 4096)
  ELSE IsqrtIn(n, 4096, 46341)

(* ceiling of the square root *)
CeilSqrt(n) == LET s == Isqrt(n) IN IF s * s = n THEN s ELSE s + 1

SetMin(S) == CHOOSE m \in S : \A x \in S : m <= x
SetMax(S) == CHOOSE m \in S : \A x \in S : m >= x

----------------------------------------------------------------------------
(* SDF primitives: the closures handed to insert_sdf_domain *)

(* shapes::Rect::sdf for a rectangle of the given size centred at (cx, cy) *)
RectSdf(cx, cy, sx, sy, p) ==
  LET dx == Abs(p[1] - cx) - sx \div 2
      dy == Abs(p[2] - cy) - sy \div 2
      outside_dist == Isqrt(Max2(dx, 0) * Max2(dx, 0) + Max2(dy, 0) * Max2(dy, 0))
      inside_dist == Min2(Max2(dx, dy), 0)
  IN outside_dist + inside_dist

(* sdf::boundary_rect: negated SDF of the unit square *)
boundary_rect(p) == -RectSdf(One \div 2, One \div 2, One, One, p)

(* Circle.translate(c).scale(r): |p - c| - r *)
CircleSdf(c, r, p) ==
  Isqrt((p[1] - c[1]) * (p[1] - c[1]) + (p[2] - c[2]) * (p[2] - c[2])) - r

BoundaryPrim == [kind |-> "boundary", c |-> <<0, 0>>, r |-> 0]
CirclePrim(c, r) == [kind |-> "circle", c |-> c, r |-> r]

Sdf(f, p) ==
  IF f.kind = "boundary" THEN boundary_rect(p) ELSE CircleSdf(f.c, f.r, p)

----------------------------------------------------------------------------
(* ZOrderStorage: tiled layout *)

offset_to_xy(offset, width) == <<offset % width, offset \div width>>
xy_to_offset(xy, width) == xy[2] * width + xy[1]

(* ZOrderStorage::chunk_count *)
chunk_count == (resolution \div chunk_size) * (resolution \div chunk_size)

ChunkIds == 0..(chunk_count - 1)
Offsets == 0..(chunk_size * chunk_size - 1)

(* Chunk.top_left of ZOrderStorage::get_chunk *)
top_left(id) ==
  LET t == offset_to_xy(id, resolution \div chunk_size)
  IN <<t[1] * chunk_size, t[2] * chunk_size>>

(* index of a chunk's sample in the linear storage: the chunk's slice *)
slice_index(id, offset) == chunk_size * chunk_size * id + offset

(* Chunk::offset_to_xy_normalized: pixel / global_size, in fixed point *)
offset_to_xy_normalized(id, offset) ==
  LET xy == offset_to_xy(offset, chunk_size)
      tl == top_left(id)
  IN <<((xy[1] + tl[1]) * One) \div resolution,
       ((xy[2] + tl[2]) * One) \div resolution>>

(* Iterator::max over DistPoints in scan order, ordered by their distance   *)
(* alone (DistPoint::cmp): the last of the maximal elements is returned.    *)
DistPointMax(pts) ==
  LET best == SetMax({pts[i].distance : i \in DOMAIN pts})
      idx == SetMax({i \in DOMAIN pts : pts[i].distance = best})
  IN pts[idx]

(* DistPoint::default *)
DistPointDefault == [distance |-> Sentinel, point |-> <<0, 0>>]

(* Argmax2D::find_max; unwrap() panics on an empty cache *)
find_max == DistPointMax(chunk_argmax)

(* ZOrderStorage::chunks_domain_par_iter: the chunk span of a domain Rect.  *)
(* The box is clipped against the unit square without an emptiness check,   *)
(* scaled to chunk units, rounded outwards and cast to u64; the cast panics *)
(* on a negative coordinate.                                                *)
DomainBox(domain) ==
  [minx |-> Max2(domain.ox, 0), miny |-> Max2(domain.oy, 0),
   maxx |-> Min2(domain.ox + domain.w, One),
   maxy |-> Min2(domain.oy + domain.h, One)]

ChunkSpanRaw(domain) ==
  LET b == DomainBox(domain)
      den == One * chunk_size
  IN [minx |-> FloorDiv(b.minx * resolution, den),
      miny |-> FloorDiv(b.miny * resolution, den),
      maxx |-> CeilDiv(b.maxx * resolution, den),
      maxy |-> CeilDiv(b.maxy * resolution, den)]

SpanPanics(domain) ==
  LET s == ChunkSpanRaw(domain)
  IN s.minx < 0 \/ s.miny < 0 \/ s.maxx < 0 \/ s.maxy < 0

chunks_domain_par_iter(domain) ==
  LET s == ChunkSpanRaw(domain)
  IN {xy_to_offset(<<cx, cy>>, resolution \div chunk_size) :
        cx \in s.minx..(s.maxx - 1), cy \in s.miny..(s.maxy - 1)}

WholeDomain == [ox |-> 0, oy |-> 0, w |-> One, h |-> One]

(* a variant that stores the sampled value instead of the minimum *)
LoweredValueOverwrite(map, id, offset, f) ==
  Sdf(f, offset_to_xy_normalized(id, offset))

(* The per-chunk body of insert_sdf_domain: lower every sample of the chunk *)
(* to min(value, sdf(point)) and return the chunk's new argmax.             *)
LoweredValue(map, id, offset, f) ==
  Min2(map[slice_index(id, offset)], Sdf(f, offset_to_xy_normalized(id, offset)))

InsertedMap(map, ids, f) ==
  [i \in DOMAIN map |->
     LET id == i \div (chunk_size * chunk_size)
         offset == i % (chunk_size * chunk_size)
     IN IF id \in ids THEN LoweredValue(map, id, offset, f) ELSE map[i]]

ChunkMax(map, id) ==
  DistPointMax([o \in Offsets |->
                  [distance |-> map[slice_index(id, o)],
                   point |-> offset_to_xy_normalized(id, o)]])

(* Argmax2D::write_cache for every processed chunk *)
write_cache(cache, map, ids) ==
  [id \in DOMAIN cache |-> IF id \in ids THEN ChunkMax(map, id) ELSE cache[id]]

(* a variant that leaves the samples as they are *)
InvertedMapSame(map) == map

(* Argmax2D::invert: negate every sample *)
InvertedMap(map) == [i \in DOMAIN map |-> -map[i]]

----------------------------------------------------------------------------
(* Argmax2D operations *)

(* a variant that allocates one chunk's area only *)
NewMapChunkArea(r, c) == [i \in 0..(c * c - 1) |-> Sentinel]

(* ZOrderStorage::new: vec![default; resolution^2] *)
NewMap(r, c) == [i \in 0..(r * r - 1) |-> Sentinel]

(* Argmax2D::new: vec![DistPoint::default(); chunk_count] *)
NewCache(r, c) == [i \in 0..((r \div c) * (r \div c) - 1) |-> DistPointDefault]

(* Argmax2D::new(resolution, chunk_size); `%` panics on a zero divisor *)
New(r, c) ==
  /\ result = "none"
  /\ resolution' = r
  /\ chunk_size' = c
  /\ IF c = 0
       THEN /\ result' = "panic"
            /\ panicked' = TRUE
            /\ UNCHANGED <<dist_map, chunk_argmax, applied>>
       ELSE IF r % c # 0
       THEN /\ result' = "err"
            /\ UNCHANGED <<dist_map, chunk_argmax, applied, panicked>>
       ELSE /\ result' = "ok"
            /\ dist_map' = NewMap(r, c)
            /\ chunk_argmax' = NewCache(r, c)
            /\ applied' = [i \in DOMAIN NewCache(r, c) |-> {}]
            /\ UNCHANGED panicked
  /\ last' = [op |-> "new"]
  /\ UNCHANGED <<inserted, ninvert, nops, iter_done, placed, adfvars, runvars>>

Ready == result = "ok" /\ ~panicked /\ nops < MaxOps

(* the state change of insert_sdf_domain(domain, f), shared by its callers *)
DoInsert(domain, f) ==
  /\ nops' = nops + 1
  /\ UNCHANGED <<result, resolution, chunk_size, ninvert, iter_done, runvars>>
  /\ IF SpanPanics(domain)
       THEN /\ panicked' = TRUE
            /\ UNCHANGED <<dist_map, chunk_argmax, applied, inserted>>
       ELSE LET ids == chunks_domain_par_iter(domain)
                map2 == InsertedMap(dist_map, ids, f)
            IN /\ dist_map' = map2
               /\ chunk_argmax' = write_cache(chunk_argmax, map2, ids)
               /\ applied' = [id \in DOMAIN applied |->
                                IF id \in ids THEN applied[id] \cup {f}
                                ELSE applied[id]]
               /\ inserted' = inserted \cup {f}
               /\ UNCHANGED panicked

(* Argmax2D::insert_sdf_domain *)
insert_sdf_domain(domain, f) ==
  /\ Ready
  /\ DoInsert(domain, f)
  /\ last' = [op |-> "insert_sdf_domain", domain |-> domain, f |-> f]
  /\ UNCHANGED <<placed, adfvars>>

(* Argmax2D::insert_sdf: insert_sdf_domain over the unit square *)
insert_sdf(f) ==
  /\ Ready
  /\ DoInsert(WholeDomain, f)
  /\ last' = [op |-> "insert_sdf", domain |-> WholeDomain, f |-> f]
  /\ UNCHANGED <<placed, adfvars>>

(* a variant of invert() that leaves the cache as it was *)
InvertedCacheStale(cache, map) == cache

(* the state of the grid and the cache after invert() *)
InvertedCache(cache, map) == write_cache(cache, map, DOMAIN cache)

(* the state change of invert(); last.mid is the DDF before this call,       *)
(* last.before the DDF before the previous call when that was an invert()   *)
(* too                                                                      *)
DoInvert ==
  /\ dist_map' = InvertedMap(dist_map)
  /\ chunk_argmax' = InvertedCache(chunk_argmax, InvertedMap(dist_map))
  /\ ninvert' = ninvert + 1
  /\ nops' = nops + 1
  /\ last' = [op |-> "invert", twice |-> (last.op = "invert"),
               before |-> IF last.op = "invert" THEN last.mid
                          ELSE [map |-> dist_map, cache |-> chunk_argmax],
               mid |-> [map |-> dist_map, cache |-> chunk_argmax]]
  /\ UNCHANGED <<result, resolution, chunk_size, panicked, inserted, applied,
                 iter_done, placed, adfvars, runvars>>

(* Argmax2D::invert *)
invert ==
  /\ Ready
  /\ DoInvert

----------------------------------------------------------------------------
(* Specification of the DDF under arbitrary operations *)

(* primitives and domain rectangles the callers pass *)
Prims ==
  {BoundaryPrim,
   CirclePrim(<<One \div 2, One \div 2>>, One \div 4),
   CirclePrim(<<One \div 4, One \div 4>>, One \div 8)}

Domains ==
  {[ox |-> x, oy |-> y, w |-> s, h |-> s] :
     x \in {-One, 0, One \div 2}, y \in {0, One \div 2, One},
     s \in {One \div 2}}
  \cup {[ox |-> 0, oy |-> 0, w |-> One \div 4, h |-> One]}

Init ==
  /\ result = "none"
  /\ resolution = 0
  /\ chunk_size = 0
  /\ dist_map = <<>>
  /\ chunk_argmax = <<>>
  /\ panicked = FALSE
  /\ inserted = {}
  /\ applied = <<>>
  /\ ninvert = 0
  /\ nops = 0
  /\ iter_done = FALSE
  /\ last = [op |-> "none"]
  /\ placed = <<>>
  /\ oracle = "none"
  /\ tree = <<>>
  /\ max_depth = 0
  /\ ipm_gd_lattice_density = 0
  /\ change_exists = FALSE
  /\ tree_before = <<>>
  /\ adf_inserted = {}
  /\ adf_init = <<>>
  /\ covered = TRUE
  /\ adf_ops = 0
  /\ batch = <<>>
  /\ pulled = [called |-> FALSE, field |-> <<>>, starts |-> <<>>, order |-> <<>>,
               result |-> <<>>, after_empty |-> FALSE]
  /\ candidates = <<>>
  /\ adf_panicked = FALSE
  /\ par_call = [op |-> "none", pending |-> {}]
  /\ search = [op |-> "none"]

Next ==
  \/ \E r \in Resolutions, c \in ChunkSizes : New(r, c)
  \/ \E d \in Domains, f \in Prims : insert_sdf_domain(d, f)
  \/ \E f \in Prims : insert_sdf(f)
  \/ invert

Spec == Init /\ [][Next]_vars

----------------------------------------------------------------------------
(* Placement driver on the DDF *)

(* a variant that takes the square circumscribing the disc of radius        *)
(* p.distance, without the 2 * sqrt(2) margin                               *)
domain_tight(p) ==
  [ox |-> p.point[1] - p.distance, oy |-> p.point[2] - p.distance,
   w |-> 2 * p.distance, h |-> 2 * p.distance]

(* util::domain_empirical: the square of side distance * 4 * sqrt(2) centred *)
(* at the point.  The half side 2 * sqrt(2) * distance is rounded outwards   *)
(* to the fixed-point grid, which changes neither the chunk span (chunk      *)
(* boundaries are grid points) nor Rect::intersects with a node rectangle.   *)
domain_empirical(p) ==
  LET half == CeilSqrt(8 * p.distance * p.distance)
  IN [ox |-> p.point[1] - half, oy |-> p.point[2] - half,
      w |-> 2 * half, h |-> 2 * half]

(* a variant with the threshold of a whole cell diagonal, sqrt(2) /         *)
(* resolution                                                               *)
AboveCellDiagonal(d) ==
  d >= 0 /\ d * d * resolution * resolution >= 2 * One * One

(* Argmax2D::iter: min_dist = 0.5 * SQRT_2 / resolution; the take_while of  *)
(* ArgmaxIter::build keeps a maximum iff distance >= min_dist.              *)
AboveMinDist(d) ==
  d >= 0 /\ 2 * d * d * resolution * resolution >= One * One

(* The shape the drivers build around a maximum m: a circle of radius       *)
(* r = m.distance / k whose centre is offset from m.point by m.distance - r *)
(* in direction u (the random policy of the examples, along the axes), or   *)
(* not at all (lib.rs: u = 0, k = 4).  It lies in the disc of radius        *)
(* m.distance around m.point.                                               *)
Shape(m, u, k) ==
  LET d == m.distance
      r == d \div k
  IN CirclePrim(<<m.point[1] + u[1] * (d - r), m.point[2] + u[2] * (d - r)>>, r)

Directions == {<<0, 0>>, <<1, 0>>, <<-1, 0>>, <<0, 1>>, <<0, -1>>}
RadiusDivisors == {1, 2, 4}

Contained(f, m) ==
  /\ f.r <= m.distance
  /\ (f.c[1] - m.point[1]) * (f.c[1] - m.point[1])
       + (f.c[2] - m.point[2]) * (f.c[2] - m.point[2])
     <= (m.distance - f.r) * (m.distance - f.r)

(* tests.rs fractal_distribution / lib.rs: seed the field with boundary_rect *)
seed ==
  /\ nops = 0
  /\ insert_sdf(BoundaryPrim)

(* what insert_sdf(f), over the whole unit square, would leave behind *)
FullInsert(f) ==
  LET ids == chunks_domain_par_iter(WholeDomain)
      map2 == InsertedMap(dist_map, ids, f)
  IN [map |-> map2, cache |-> write_cache(chunk_argmax, map2, ids)]

(* one step of the driver loop: take the maximum, build a shape in its disc, *)
(* insert it over domain_empirical(maximum), yield the shape                 *)
place(u, k) ==
  /\ result = "ok" /\ ~panicked
  /\ inserted # {}
  /\ Len(placed) < MaxPlaced
  /\ ~iter_done
  /\ LET m == find_max
         f == Shape(m, u, k)
     IN /\ AboveMinDist(m.distance)
        /\ DoInsert(domain_empirical(m), f)
        /\ last' = [op |-> "place", m |-> m, f |-> f,
                    domain |-> domain_empirical(m), full |-> FullInsert(f)]
        /\ placed' = Append(placed, f)
  /\ UNCHANGED adfvars

(* ArgmaxIter::build: the take_while refuses the first maximum below         *)
(* min_dist and the iterator is over                                         *)
iter_end ==
  /\ result = "ok" /\ ~panicked
  /\ inserted # {}
  /\ ~iter_done
  /\ ~AboveMinDist(find_max.distance)
  /\ iter_done' = TRUE
  /\ last' = [op |-> "end", m |-> find_max]
  /\ UNCHANGED <<result, resolution, chunk_size, dist_map, chunk_argmax, panicked,
                 inserted, applied, ninvert, nops, placed, adfvars, runvars>>

PlaceResolutions == {4, 8}
PlaceChunks == {1, 2}

NextPlace ==
  \/ \E r \in PlaceResolutions, c \in PlaceChunks : New(r, c)
  \/ seed
  \/ \E u \in Directions, k \in RadiusDivisors : place(u, k)
  \/ iter_end

SpecPlace == Init /\ [][NextPlace]_vars

(* examples/argmax2d/03_embedded.rs: after the first distribution has been  *)
(* placed the field is inverted                                             *)
embedded_invert ==
  /\ result = "ok" /\ ~panicked
  /\ placed # <<>>
  /\ ninvert = 0
  /\ DoInvert

NextEmbedded ==
  \/ \E r \in PlaceResolutions, c \in PlaceChunks : New(r, c)
  \/ seed
  \/ \E u \in Directions, k \in RadiusDivisors : place(u, k)
  \/ embedded_invert

SpecEmbedded == Init /\ [][NextEmbedded]_vars

(* a variant that puts the circle two unit squares to the right of the       *)
(* maximum                                                                   *)
fractal_circle_far(m) ==
  CirclePrim(<<m.point[1] + 2 * One, m.point[2]>>, m.distance \div 4)

(* tests.rs fractal_distribution: Circle { xy: point, r: distance / 4.0 } *)
fractal_circle(m) == CirclePrim(m.point, m.distance \div 4)

(* one step of fractal_distribution: the iterator yields the maximum, the    *)
(* closure inserts the circle over domain_empirical                          *)
fractal_place ==
  /\ result = "ok" /\ ~panicked
  /\ inserted # {}
  /\ Len(placed) < MaxFractal
  /\ ~iter_done
  /\ LET m == find_max
         f == fractal_circle(m)
     IN /\ AboveMinDist(m.distance)
        /\ DoInsert(domain_empirical(m), f)
        /\ last' = [op |-> "fractal", m |-> m, f |-> f]
        /\ placed' = Append(placed, f)
  /\ UNCHANGED adfvars

FractalResolutions == {2, 4, 8}
FractalChunks == {1, 2, 4}

(* the run of fractal_distribution to its end; the loop is sequential, every *)
(* step that can be taken is taken                                           *)
NextFractal ==
  \/ \E r \in FractalResolutions, c \in FractalChunks : r % c = 0 /\ New(r, c)
  \/ seed
  \/ fractal_place
  \/ iter_end

(* a step of the run can be taken: ENABLED <<NextFractal>>_vars, written out *)
(* from the guards of its actions                                            *)
FractalEnabled ==
  \/ result = "none"
  \/ /\ result = "ok" /\ ~panicked /\ nops = 0
  \/ /\ result = "ok" /\ ~panicked /\ inserted # {} /\ ~iter_done
     /\ AboveMinDist(find_max.distance) => Len(placed) < MaxFractal

(* weak fairness of the loop, WF_vars(NextFractal) with its ENABLED written  *)
(* as FractalEnabled                                                         *)
FractalFair == []<>(~FractalEnabled) \/ []<><<NextFractal>>_vars

SpecFractal == Init /\ [][NextFractal]_vars /\ FractalFair

----------------------------------------------------------------------------
(* LineSearch *)

(* LineSearch::default: the probe distance and final step length.  Positions *)
(* are integers; Delta is the finite-difference offset, so a gradient is     *)
(* resolved to 1/Delta.                                                      *)
Delta == 16

(* step_size * decay_factor, decay_factor = 0.85 *)
decay_factor(step_size) == (step_size * 85) \div 100

(* LineSearch::default: initial_step_size = 1.0 *)
initial_step_size == One

(* division rounded to the nearest integer, for b > 0 *)
RoundDiv(a, b) == (2 * a + b) \div (2 * b)

(* V2::normalize() * step_size of the difference vector (gx, gy) # 0.  A    *)
(* difference with the value of an empty bucket, f32::MAX / 2, has a square *)
(* that overflows to infinity: the length is infinite and the normalised    *)
(* vector is zero.                                                          *)
NormalizedStep(gx, gy, step_size) ==
  IF Abs(gx) >= Sentinel \div 2 \/ Abs(gy) >= Sentinel \div 2 THEN <<0, 0>>
  ELSE LET len == Isqrt(256 * (gx * gx + gy * gy))
       IN <<RoundDiv(16 * gx * step_size, len), RoundDiv(16 * gy * step_size, len)>>

----------------------------------------------------------------------------
(* Rectangles (euclid::Rect) and quadtree nodes *)

(* Rect::contains: half open *)
contains(rect, p) ==
  /\ rect.ox <= p[1] /\ p[1] < rect.ox + rect.w
  /\ rect.oy <= p[2] /\ p[2] < rect.oy + rect.h

(* Rect::intersects: strict on both sides *)
intersects(a, b) ==
  /\ a.ox < b.ox + b.w /\ b.ox < a.ox + a.w
  /\ a.oy < b.oy + b.h /\ b.oy < a.oy + a.h

(* the rectangle of child i of a node: quadrant_origin()[i] scaled by the    *)
(* node's size, half the node's size                                         *)
ChildRect(rect, i) ==
  [ox |-> rect.ox + (i % 2) * (rect.w \div 2),
   oy |-> rect.oy + (i \div 2) * (rect.h \div 2),
   w |-> rect.w \div 2, h |-> rect.h \div 2]

(* Quadtree.rect of the node reached from the root by a path of quadrants *)
RECURSIVE NodeRect(_)
NodeRect(path) ==
  IF path = <<>> THEN WholeDomain
  ELSE ChildRect(NodeRect(SubSeq(path, 1, Len(path) - 1)), path[Len(path)])

(* Quadtrant::get: the first quadrant, in the order TL, TR, BL, BR, whose     *)
(* rectangle contains pt; -1 stands for None                                  *)
Quadtrant_get(rect, pt) ==
  LET hits == {i \in 0..3 : contains(ChildRect(rect, i), pt)}
  IN IF hits = {} THEN -1 ELSE SetMin(hits)

(* Quadtree::new *)
Quadtree_new(init) == (<<>> :> [data |-> init, children |-> FALSE])

(* Quadtree::pt_to_node from a node on: the leaf containing pt; <<-1>> stands *)
(* for None                                                                   *)
RECURSIVE pt_to_node(_, _, _)
pt_to_node(t, node, pt) ==
  IF ~t[node].children THEN node
  ELSE LET q == Quadtrant_get(NodeRect(node), pt)
       IN IF q = -1 THEN <<-1>> ELSE pt_to_node(t, Append(node, q), pt)

----------------------------------------------------------------------------
(* ADF: buckets of primitives, comparison of SDFs, insertion *)

BUCKET_SIZE == 3

(* impl SDF for &[Arc<dyn Fn>]: the minimum of the bucket, f32::MAX/2 for an *)
(* empty one (also the fold of `sdf_old` in prune)                           *)
slice_sdf(data, p) ==
  IF data = <<>> THEN Sentinel
  ELSE SetMin({Sdf(data[i], p) : i \in DOMAIN data})

(* a variant that always answers from the root's bucket *)
ADF_sdf_root(t, p) == slice_sdf(t[<<>>].data, p)

(* impl SDF for ADF *)
ADF_sdf(t, p) ==
  LET node == pt_to_node(t, <<>>, p)
  IN IF node = <<-1>> THEN slice_sdf(t[<<>>].data, p)
     ELSE slice_sdf(t[node].data, p)

(* sdf_partialord: boundary_constraint, the SDF of the domain rectangle *)
boundary_constraint(domain, v) ==
  RectSdf(domain.ox + domain.w \div 2, domain.oy + domain.h \div 2,
          domain.w, domain.h, v)

(* sdf_partialord: the function handed to optimize_normal, for f and g the   *)
(* minima of the buckets F and G                                             *)
ipm_objective(F, G, domain, v) ==
  IF contains(domain, v) THEN slice_sdf(G, v) - slice_sdf(F, v)
  ELSE -boundary_constraint(domain, v)

(* LineSearch::optimize_normal: TRUE as soon as the objective is positive at *)
(* the current point, FALSE once the step is shorter than Delta.  A zero     *)
(* difference vector normalises to NaN, after which no comparison succeeds.  *)
RECURSIVE optimize_normal(_, _, _, _, _)
optimize_normal(F, G, domain, p, step_size) ==
  IF step_size < Delta THEN FALSE
  ELSE LET fp == ipm_objective(F, G, domain, p)
       IN IF fp > 0 THEN TRUE
          ELSE LET gx == ipm_objective(F, G, domain, <<p[1] + Delta, p[2]>>) - fp
                   gy == ipm_objective(F, G, domain, <<p[1], p[2] + Delta>>) - fp
               IN IF gx = 0 /\ gy = 0 THEN FALSE
                  ELSE LET d == NormalizedStep(gx, gy, step_size)
                       IN optimize_normal(F, G, domain,
                                          <<p[1] + d[1], p[2] + d[2]>>,
                                          decay_factor(step_size))

(* sdf_partialord: control_points, the lattice_density^2 start points *)
control_points(rect, n) ==
  {<<rect.ox + (rect.w * x) \div (n - 1), rect.oy + (rect.h * y) \div (n - 1)>> :
     x \in 0..(n - 1), y \in 0..(n - 1)}

(* sdf_partialord(f, g, domain, lattice_density, line_search) *)
sdf_partialord(F, G, domain, lattice_density) ==
  IF lattice_density = 1
    THEN ~optimize_normal(F, G, domain,
                          <<domain.ox + domain.w \div 2, domain.oy + domain.h \div 2>>,
                          initial_step_size)
    ELSE ~\E v \in control_points(domain, lattice_density) :
            optimize_normal(F, G, domain, v, initial_step_size)

(* the points of a closed rectangle on the lattice of spacing Delta *)
LatticePoints(rect) ==
  {<<rect.ox + Delta * x, rect.oy + Delta * y>> :
     x \in 0..(rect.w \div Delta), y \in 0..(rect.h \div Delta)}

(* higher_all, f(v) >= g(v) for every control point v of d, with the control *)
(* points taken as the whole lattice instead of 5 x 5                        *)
higher_all(F, G, d) ==
  ~\E v \in LatticePoints(d) : slice_sdf(G, v) > slice_sdf(F, v)

(* the comparison insert_sdf_domain uses *)
partialord(F, G, rect) ==
  IF oracle = "exact" THEN higher_all(F, G, rect)
  ELSE sdf_partialord(F, G, rect, ipm_gd_lattice_density)

(* data without its i-th element *)
Others(data, i) == SubSeq(data, 1, i - 1) \o SubSeq(data, i + 1, Len(data))

(* insert_sdf_domain: prune, from index i on: keep data[i] iff it is lower   *)
(* than all the others somewhere in rect                                     *)
RECURSIVE prune_from(_, _, _)
prune_from(data, rect, i) ==
  IF i > Len(data) THEN <<>>
  ELSE (IF ~partialord(<<data[i]>>, Others(data, i), rect)
          THEN <<data[i]>> ELSE <<>>) \o prune_from(data, rect, i + 1)

prune(data, rect) == prune_from(data, rect, 1)

(* traverse_managed_parallel reaches a node iff the closure returned Ok for  *)
(* all its ancestors: they intersect the domain (and have children)          *)
Reached(path, domain) ==
  \A k \in 0..(Len(path) - 1) : intersects(NodeRect(SubSeq(path, 1, k)), domain)

(* a variant that never subdivides *)
bucket_branch_append(t, path) == "append"

(* a variant that subdivides a full bucket at any depth *)
bucket_branch_any_depth(t, path) ==
  IF Len(t[path].data) < BUCKET_SIZE THEN "append" ELSE "subdivide"

(* insert_sdf_domain, the branch after the two comparisons: append at the    *)
(* floor of the tree or below BUCKET_SIZE, subdivide otherwise               *)
bucket_branch(t, path) ==
  IF Len(path) = max_depth THEN "append"
  ELSE IF Len(t[path].data) < BUCKET_SIZE THEN "append"
  ELSE "subdivide"

(* a variant of the closure without the test of the domain *)
closure_any_domain(t, path, domain, f) ==
  IF t[path].children THEN "ok"
  ELSE IF partialord(<<f>>, t[path].data, NodeRect(path)) THEN "skip"
  ELSE IF partialord(t[path].data, <<f>>, NodeRect(path)) THEN "replace"
  ELSE bucket_branch(t, path)

(* the closure of insert_sdf_domain on the node it is called with: what it  *)
(* does to the node                                                         *)
closure(t, path, domain, f) ==
  IF ~intersects(NodeRect(path), domain) THEN "skip"
  ELSE IF t[path].children THEN "ok"
  ELSE IF partialord(<<f>>, t[path].data, NodeRect(path)) THEN "skip"
  ELSE IF partialord(t[path].data, <<f>>, NodeRect(path)) THEN "replace"
  ELSE bucket_branch(t, path)

(* the closure of insert_sdf_domain on one node of the tree, when the       *)
(* traversal gets to it                                                     *)
visit(t, path, domain, f) ==
  IF ~Reached(path, domain) THEN "unreached"
  ELSE closure(t, path, domain, f)

(* a variant in which the replacement of a bucket does not set the flag *)
ChangeFlagNoReplace(visits) ==
  \E n \in DOMAIN visits : visits[n] \in {"append", "subdivide"}

(* change_exists: set by the replace branch and by the append/subdivide one *)
ChangeFlag(visits) ==
  \E n \in DOMAIN visits : visits[n] \in {"replace", "append", "subdivide"}

(* the tree after the traversal *)
VisitedTree(t, visits, f) ==
  LET parents == {n \in DOMAIN t : visits[n] = "subdivide"}
      kids == {Append(n, q) : n \in parents, q \in 0..3}
  IN [n \in DOMAIN t \cup kids |->
        IF n \in DOMAIN t
          THEN IF visits[n] = "replace"
                 THEN [data |-> <<f>>, children |-> FALSE]
               ELSE IF visits[n] = "append"
                 THEN [data |-> Append(t[n].data, f), children |-> FALSE]
               ELSE IF visits[n] = "subdivide"
                 THEN [data |-> t[n].data, children |-> TRUE]
               ELSE t[n]
          ELSE [data |-> prune(Append(t[SubSeq(n, 1, Len(n) - 1)].data, f),
                               NodeRect(n)),
                children |-> FALSE]]

(* the leaves in which f is lower than the field somewhere are all visited *)
Covers(t, domain, f) ==
  \A n \in DOMAIN t :
    (~t[n].children /\ \E v \in LatticePoints(NodeRect(n)) :
                          Sdf(f, v) < slice_sdf(t[n].data, v))
      => (Reached(n, domain) /\ intersects(NodeRect(n), domain))

(* sdf_partialord: the match on lattice_density panics on 0 ("Invalid      *)
(* perturbation grid density"); the closure gets there on every leaf it     *)
(* reaches that intersects the domain, before it changes the leaf           *)
density_panics(t, domain) ==
  /\ oracle = "gd"
  /\ ipm_gd_lattice_density = 0
  /\ \E n \in DOMAIN t :
       Reached(n, domain) /\ intersects(NodeRect(n), domain) /\ ~t[n].children

(* the state change of ADF::insert_sdf_domain(domain, f) *)
ADF_DoInsert(domain, f) ==
  \E visits \in {[n \in DOMAIN tree |-> visit(tree, n, domain, f)]} :
     /\ IF density_panics(tree, domain)
          THEN /\ adf_panicked' = TRUE
               /\ UNCHANGED <<tree, change_exists, covered>>
          ELSE /\ tree' = VisitedTree(tree, visits, f)
               /\ change_exists' = ChangeFlag(visits)
               /\ covered' = IF oracle = "exact"
                               THEN covered /\ Covers(tree, domain, f)
                               ELSE covered
               /\ UNCHANGED adf_panicked
     /\ tree_before' = tree
     /\ adf_inserted' = adf_inserted \cup {f}
     /\ adf_ops' = adf_ops + 1
     /\ UNCHANGED <<oracle, max_depth, ipm_gd_lattice_density, adf_init>>

(* ADF::new(max_depth, init).with_gd_lattice_density(density) *)
ADF_new(depth, init, density) ==
  /\ oracle = "none"
  /\ oracle' = "gd"
  /\ tree' = Quadtree_new(init)
  /\ max_depth' = depth
  /\ ipm_gd_lattice_density' = density
  /\ adf_inserted' = {init[i] : i \in DOMAIN init}
  /\ adf_init' = init
  /\ UNCHANGED <<change_exists, tree_before, covered, adf_ops, batch, pulled,
                 candidates, adf_panicked>>
  /\ UNCHANGED <<ddfvars, last, placed, runvars>>

(* ADF::new with the comparison replaced by the exact one *)
ADF_new_exact(depth, init) ==
  /\ oracle = "none"
  /\ oracle' = "exact"
  /\ tree' = Quadtree_new(init)
  /\ max_depth' = depth
  /\ ipm_gd_lattice_density' = 1
  /\ adf_inserted' = {init[i] : i \in DOMAIN init}
  /\ adf_init' = init
  /\ UNCHANGED <<change_exists, tree_before, covered, adf_ops, batch, pulled,
                 candidates, adf_panicked>>
  /\ UNCHANGED <<ddfvars, last, placed, runvars>>

(* ADF::insert_sdf_domain *)
ADF_insert_sdf_domain(domain, f) ==
  /\ oracle # "none"
  /\ ~adf_panicked
  /\ adf_ops < MaxAdfOps
  /\ ADF_DoInsert(domain, f)
  /\ UNCHANGED <<batch, pulled, candidates>>
  /\ UNCHANGED <<ddfvars, last, placed, runvars>>

----------------------------------------------------------------------------
(* Specifications of the ADF under arbitrary insertions *)

Depths == {0, 1, 2}
Densities == {1, 2}

ADFPrims ==
  {CirclePrim(<<(7 * One) \div 8, (7 * One) \div 8>>, One \div 4),
   CirclePrim(<<One \div 4, One \div 4>>, One \div 8),
   CirclePrim(<<(3 * One) \div 4, One \div 2>>, One \div 8),
   CirclePrim(<<(7 * One) \div 8, One \div 2>>, One \div 4)}

Inits ==
  {<<BoundaryPrim>>,
   <<BoundaryPrim, CirclePrim(<<One \div 2, One \div 2>>, One \div 8)>>,
   <<BoundaryPrim, CirclePrim(<<One \div 2, One \div 2>>, One \div 8),
     CirclePrim(<<One \div 4, (3 * One) \div 4>>, One \div 8)>>}

ADFDomains ==
  {WholeDomain, [ox |-> One \div 2, oy |-> 0, w |-> One, h |-> One]}

NextADF ==
  \/ \E d \in Depths, i \in Inits, n \in Densities : ADF_new(d, i, n)
  \/ \E d \in ADFDomains, f \in ADFPrims : ADF_insert_sdf_domain(d, f)

SpecADF == Init /\ [][NextADF]_vars

NextADFExact ==
  \/ \E d \in Depths, i \in Inits : ADF_new_exact(d, i)
  \/ \E d \in ADFDomains, f \in ADFPrims : ADF_insert_sdf_domain(d, f)

SpecADFExact == Init /\ [][NextADFExact]_vars

----------------------------------------------------------------------------
(* Placement driver on the ADF: util::local_maxima_iter and the filter_map   *)
(* of lib.rs / examples/gd_adf/02_random_distribution.rs                     *)

(* LineSearch::optimize on the field of the ADF: p += grad * step_size until *)
(* that vector is shorter than Delta                                         *)
RECURSIVE optimize(_, _, _)
optimize(t, p, step_size) ==
  LET fp == ADF_sdf(t, p)
      gx == RoundDiv((ADF_sdf(t, <<p[1] + Delta, p[2]>>) - fp) * step_size, Delta)
      gy == RoundDiv((ADF_sdf(t, <<p[1], p[2] + Delta>>) - fp) * step_size, Delta)
  IN IF gx * gx + gy * gy < Delta * Delta THEN p
     ELSE optimize(t, <<p[1] + gx, p[2] + gy>>, decay_factor(step_size))

(* find_max_parallel: the points the walks end in, with their field value,   *)
(* kept when the value exceeds Delta                                         *)
RECURSIVE ascended(_, _, _)
ascended(t, starts, i) ==
  IF i > Len(starts) THEN <<>>
  ELSE LET p1 == optimize(t, starts[i], initial_step_size)
           d == ADF_sdf(t, p1)
       IN (IF d > Delta THEN <<[distance |-> d, point |-> p1]>> ELSE <<>>)
            \o ascended(t, starts, i + 1)

(* find_max_parallel: pn is pushed iff every point pushed before it is       *)
(* farther from it than 2 * pn.distance                                      *)
RECURSIVE distinct_from(_, _, _)
distinct_from(points, points1, i) ==
  IF i > Len(points) THEN points1
  ELSE LET pn == points[i]
           far == \A j \in DOMAIN points1 :
                    (points1[j].point[1] - pn.point[1]) * (points1[j].point[1] - pn.point[1])
                      + (points1[j].point[2] - pn.point[2]) * (points1[j].point[2] - pn.point[2])
                    > 4 * pn.distance * pn.distance
       IN distinct_from(points, IF far THEN Append(points1, pn) ELSE points1, i + 1)

(* a variant of the collect that keeps the points in the order in which the *)
(* walks finished                                                            *)
par_collect_unordered(t, starts, order) ==
  ascended(t, [k \in DOMAIN order |-> starts[order[k]]], 1)

(* into_par_iter().filter_map(..).collect(): the walks finish in the order   *)
(* the scheduler gives them, the collected Vec is in the order of the start  *)
(* points                                                                    *)
par_collect(t, starts, order) == ascended(t, starts, 1)

(* find_max_parallel on the start points rng drew, the walks scheduled in    *)
(* the given order                                                           *)
find_max_parallel(t, starts, order) ==
  distinct_from(par_collect(t, starts, order), <<>>, 1)

(* the schedules of n parallel walks: the orders in which they can finish *)
Schedules(n) ==
  {o \in [1..n -> 1..n] : \A i \in 1..n, j \in 1..n : o[i] = o[j] => i = j}

InOrder(n) == [i \in 1..n |-> i]

(* random_distribution: a circle of radius min(m.distance / k, 1/6) whose    *)
(* centre is m.distance - r away from m.point in direction u; lib.rs takes   *)
(* u = 0, k = 4                                                              *)
random_circle(m, u, k) ==
  LET r == Min2(m.distance \div k, One \div 6)
      delta == m.distance - r
  IN CirclePrim(<<m.point[1] - u[1] * delta, m.point[2] - u[2] * delta>>, r)

(* a variant of the filter_map that yields every candidate *)
YieldedAlways(shapes, f, committed) == Append(shapes, f)

(* filter_map: insert_sdf_domain(..).then(|| circle) *)
Yielded(shapes, f, committed) ==
  IF committed THEN Append(shapes, f) ELSE shapes

(* local_maxima_iter: the flat_map asks find_max_parallel for the next batch *)
(* when the previous one is used up; the batch samples the field once        *)
local_maxima_iter(starts, order) ==
  /\ oracle = "gd"
  /\ batch = <<>>
  /\ Len(candidates) < MaxCand
  /\ batch' = find_max_parallel(tree, starts, order)
  /\ pulled' = [called |-> TRUE, field |-> tree, starts |-> starts,
                order |-> order, result |-> batch',
                after_empty |-> (pulled.called /\ pulled.result = <<>>)]
  /\ UNCHANGED <<oracle, tree, max_depth, ipm_gd_lattice_density, change_exists,
                 tree_before, adf_inserted, adf_init, covered, adf_ops,
                 candidates, adf_panicked>>
  /\ UNCHANGED <<ddfvars, last, placed, runvars>>

(* the filter_map closure on the next maximum of the batch *)
adf_place(u, k) ==
  /\ oracle = "gd"
  /\ batch # <<>>
  /\ Len(candidates) < MaxCand
  /\ LET m == Head(batch)
         f == random_circle(m, u, k)
     IN /\ ADF_DoInsert(domain_empirical(m), f)
        /\ candidates' = Append(candidates, [m |-> m, f |-> f,
                                             committed |-> change_exists'])
        /\ placed' = Yielded(placed, f, change_exists')
  /\ batch' = Tail(batch)
  /\ UNCHANGED <<ddfvars, last, pulled, runvars>>

(* lib.rs: ADF::new(max_depth, vec![boundary_rect]), default lattice density *)
adf_seed(depth) == ADF_new(depth, <<BoundaryPrim>>, 1)

DriverDepths == {1}

(* the start points rng draws for a batch *)
StartBatches ==
  {<<<<(3 * One) \div 4, (3 * One) \div 4>>, <<One \div 2, (3 * One) \div 4>>>>,
   <<<<(3 * One) \div 4, One \div 2>>, <<(3 * One) \div 4, One \div 4>>>>,
   <<<<(3 * One) \div 4, One \div 2>>, <<One \div 2, One \div 2>>>>}

(* the angle and radius rng draws for a shape *)
Draws == {<<<<0, 0>>, 4>>, <<<<1, 0>>, 1>>, <<<<0, 1>>, 1>>}

NextADFPlace ==
  \/ \E d \in DriverDepths : adf_seed(d)
  \/ \E s \in StartBatches : local_maxima_iter(s, InOrder(Len(s)))
  \/ \E w \in Draws : adf_place(w[1], w[2])

SpecADFPlace == Init /\ [][NextADFPlace]_vars

(* the iterator alone: any schedule of the walks, and rng drawing the corner *)
(* (0, 0), where the forward differences of boundary_rect vanish             *)
CornerBatch == <<<<0, 0>>, <<0, 0>>>>

IterStarts ==
  {<<<<(3 * One) \div 4, One \div 2>>, <<(3 * One) \div 4, One \div 4>>>>,
   CornerBatch}

IterDraws == {<<<<0, 0>>, 4>>, <<<<1, 0>>, 1>>, <<<<0, 1>>, 2>>}

NextADFIter ==
  \/ \E d \in DriverDepths : adf_seed(d)
  \/ \E s \in IterStarts : \E o \in Schedules(Len(s)) : local_maxima_iter(s, o)
  \/ \E w \in IterDraws : adf_place(w[1], w[2])

SpecADFIter == Init /\ [][NextADFIter]_vars

----------------------------------------------------------------------------
(* Properties of the DDF under arbitrary operations (Spec) *)

CellValue(id, o) == dist_map[slice_index(id, o)]
AllValues == {CellValue(id, o) : id \in ChunkIds, o \in Offsets}
MinOver(S, p) == SetMin({Sdf(f, p) : f \in S})

C3_CacheIsTileMax ==
  result = "ok" =>
    /\ \A id \in ChunkIds :
         chunk_argmax[id].distance = SetMax({CellValue(id, o) : o \in Offsets})
    /\ find_max.distance = SetMax(AllValues)

C3_Witness ==
  /\ result = "ok" /\ ninvert = 1 /\ inserted # {} /\ last.op = "invert"
  /\ \E id \in ChunkIds : applied[id] = {}
  /\ \E id \in ChunkIds : applied[id] # {}

(* C4 as stated: find_max().point is the world coordinate of a cell whose   *)
(* stored value is find_max().distance.  The code violates it: a chunk no   *)
(* insertion has covered keeps DistPoint::default(), whose point is (0, 0). *)
C4_PointIsArgmaxCell ==
  result = "ok" =>
    \E id \in ChunkIds, o \in Offsets :
      /\ offset_to_xy_normalized(id, o) = find_max.point
      /\ CellValue(id, o) = find_max.distance

(* C10: the constructor returns the error exactly for non-divisible pairs   *)
(* and otherwise resolution^2 sentinel cells and (resolution/chunk)^2 cache *)
(* entries.                                                                 *)
C10_Constructor ==
  (result # "none" /\ chunk_size # 0) =>
    /\ result = "err" <=> resolution % chunk_size # 0
    /\ result = "ok" <=> resolution % chunk_size = 0
    /\ (result = "ok" /\ nops = 0) =>
         /\ DOMAIN dist_map = 0..(resolution * resolution - 1)
         /\ \A i \in DOMAIN dist_map : dist_map[i] = Sentinel
         /\ Cardinality(DOMAIN chunk_argmax) =
              (resolution \div chunk_size) * (resolution \div chunk_size)

C10_Witness == result = "err" /\ resolution % chunk_size # 0

----------------------------------------------------------------------------
(* Properties of the DDF placement run (SpecPlace) *)

(* C5: inserting a shape of the maximum's disc over domain_empirical leaves *)
(* the grid and the cache as inserting it over the unit square would.       *)
C5_DomainEquivalent ==
  (last.op = "place" /\ Contained(last.f, last.m)) =>
    /\ dist_map = last.full.map
    /\ chunk_argmax = last.full.cache

(* a placement whose domain left chunks out, with the shape filling the disc *)
C5_Witness ==
  /\ last.op = "place" /\ Contained(last.f, last.m)
  /\ last.f.r = last.m.distance
  /\ Len(placed) = 2
  /\ \E id \in ChunkIds : last.f \notin applied[id]

----------------------------------------------------------------------------
(* Properties of the ADF under arbitrary insertions (SpecADF, SpecADFExact) *)

(* the points of the closed unit square on the lattice *)
Probes == LatticePoints(WholeDomain)

(* C6 as stated: no insertion raises ADF.sdf at any point of the unit square *)
C6_Monotone ==
  adf_ops > 0 =>
    \A p \in Probes : ADF_sdf(tree, p) <= ADF_sdf(tree_before, p)

(* C7 as stated, with the exact comparison: ADF.sdf is the minimum over the  *)
(* seed and the inserted primitives at every point of the unit square.       *)
C7_ExactSound ==
  (oracle = "exact" /\ covered) =>
    \A p \in Probes : ADF_sdf(tree, p) = MinOver(adf_inserted, p)

(* C8: insert_sdf_domain returns true iff the call changed the tree; after a *)
(* false the tree and every bucket are what they were.                       *)
C8_ReturnsChange ==
  adf_ops > 0 => (change_exists <=> tree # tree_before)

C8_Witness ==
  /\ adf_ops = 2 /\ ~change_exists /\ tree = tree_before
  /\ \E n \in DOMAIN tree : tree[n].children

----------------------------------------------------------------------------
(* Properties of the ADF placement run (SpecADFPlace) *)

(* S_j's SDF is below -Delta somewhere in S_i: the circles overlap by more   *)
(* than Delta                                                                *)
Overlap(f, g) ==
  /\ f.r + g.r > Delta
  /\ (f.c[1] - g.c[1]) * (f.c[1] - g.c[1]) + (f.c[2] - g.c[2]) * (f.c[2] - g.c[2])
       < (f.r + g.r - Delta) * (f.r + g.r - Delta)

(* C1 as stated: no two placed shapes overlap (up to line_search.delta) *)
C1_NonOverlap ==
  \A i \in DOMAIN placed, j \in DOMAIN placed :
    i # j => ~Overlap(placed[i], placed[j])

(* the shapes of the committed candidates, in candidate order *)
RECURSIVE CommittedShapes(_)
CommittedShapes(cs) ==
  IF cs = <<>> THEN <<>>
  ELSE (IF Head(cs).committed THEN <<Head(cs).f>> ELSE <<>>)
         \o CommittedShapes(Tail(cs))

(* C9: the yielded sequence is the subsequence of the candidates for which   *)
(* insert_sdf_domain returned true, in candidate order.                      *)
C9_YieldIffCommitted ==
  oracle = "gd" => placed = CommittedShapes(candidates)

(* a rejected candidate followed by a committed one *)
C9_Witness ==
  /\ Len(candidates) >= 2
  /\ \E i \in DOMAIN candidates :
       /\ ~candidates[i].committed
       /\ \E j \in DOMAIN candidates : j > i /\ candidates[j].committed
  /\ placed = CommittedShapes(candidates)

----------------------------------------------------------------------------
(* Failure paths and involution of the DDF (Spec) *)

(* C11 as stated: the constructor returns the error or a DDF, and no        *)
(* operation on a DDF panics or changes the dimensions of the grid.  The    *)
(* code violates it: `resolution % 0` panics in the constructor, and the    *)
(* cast of a negative chunk span to u64 panics in insert_sdf_domain.        *)
C11_NoFailurePath ==
  /\ result # "panic"
  /\ ~panicked
  /\ result = "ok" =>
       /\ DOMAIN dist_map = 0..(resolution * resolution - 1)
       /\ Cardinality(DOMAIN chunk_argmax) = chunk_count

(* C12 as stated: two invert() calls in a row leave every cell and every    *)
(* cache entry (distance and point) as they were before the two calls.  The *)
(* code violates it for the cache points of chunks that still held          *)
(* DistPoint::default().                                                    *)
C12_InvertInvolution ==
  (result = "ok" /\ last.op = "invert" /\ last.twice) =>
    /\ dist_map = last.before.map
    /\ chunk_argmax = last.before.cache

----------------------------------------------------------------------------
(* Lookup and shape of the ADF (SpecADF) *)

(* points outside the unit square *)
OutsideProbes ==
  {<<One + Delta \div 2, (7 * One) \div 8>>, <<One + Delta \div 2, One \div 2>>,
   <<-Delta, One \div 2>>, <<One \div 2, One + One \div 4>>}

(* the half-open unit square, and the leaves of the tree *)
InUnitSquare(p) == 0 <= p[1] /\ p[1] < One /\ 0 <= p[2] /\ p[2] < One
Leaves(t) == {n \in DOMAIN t : ~t[n].children}
LeavesAt(t, p) ==
  {n \in Leaves(t) :
     LET r == NodeRect(n)
     IN r.ox <= p[1] /\ p[1] < r.ox + r.w /\ r.oy <= p[2] /\ p[2] < r.oy + r.h}

Appended(old, new) ==
  Len(new) = Len(old) + 1 /\ SubSeq(new, 1, Len(old)) = old

(* C14: no node lies deeper than max_depth, a node with children lies above  *)
(* max_depth and has its four children one level below it, and an insertion  *)
(* that changes a leaf at depth max_depth leaves it without children: its    *)
(* bucket is replaced or has the primitive appended, also when it is full.   *)
C14_DepthBounded ==
  oracle # "none" =>
    /\ \A n \in DOMAIN tree :
         /\ Len(n) <= max_depth
         /\ tree[n].children =>
              /\ Len(n) < max_depth
              /\ \A q \in 0..3 : Append(n, q) \in DOMAIN tree
         /\ n # <<>> => /\ SubSeq(n, 1, Len(n) - 1) \in DOMAIN tree
                        /\ tree[SubSeq(n, 1, Len(n) - 1)].children
    /\ adf_ops > 0 =>
         \A n \in DOMAIN tree_before :
           (Len(n) = max_depth /\ tree[n] # tree_before[n]) =>
             /\ ~tree[n].children
             /\ \/ Len(tree[n].data) = 1
                \/ Appended(tree_before[n].data, tree[n].data)

(* a full bucket at the floor of a tree with children got a primitive more *)
C14_Witness ==
  /\ adf_ops > 0 /\ max_depth > 0
  /\ \E n \in DOMAIN tree_before :
       /\ Len(n) = max_depth
       /\ Len(tree_before[n].data) >= BUCKET_SIZE
       /\ Appended(tree_before[n].data, tree[n].data)
       /\ ~tree[n].children

(* the longest bucket a leaf created at the given depth starts with, when no *)
(* bucket grows beyond BUCKET_SIZE by appending: a subdivision hands every   *)
(* child at most the parent's bucket and the new primitive                   *)
BucketBound(depth) == Max2(Len(adf_init), BUCKET_SIZE) + depth

(* C15 as stated: a bound that does not depend on the number of insertions   *)
(* limits the bucket of every leaf.  The code violates it at the floor of    *)
(* the tree, where every insertion that is neither skipped nor a replacement *)
(* appends.                                                                  *)
C15_BucketBounded ==
  oracle # "none" =>
    \A n \in Leaves(tree) : Len(tree[n].data) <= BucketBound(Len(n))

(* C15 amended: the bound holds for the leaves above max_depth; the bucket   *)
(* of a leaf at max_depth is bounded by it plus the number of insertions.    *)
C15_BoundedAboveFloor ==
  oracle # "none" =>
    \A n \in Leaves(tree) :
      /\ Len(n) < max_depth => Len(tree[n].data) <= BucketBound(Len(n))
      /\ Len(n) = max_depth => Len(tree[n].data) <= BucketBound(Len(n)) + adf_ops

(* a leaf above the floor that holds more than BUCKET_SIZE primitives, and   *)
(* a full bucket above the floor                                             *)
C15_Witness ==
  /\ adf_ops > 0
  /\ \E n \in Leaves(tree) :
       /\ Len(n) < max_depth
       /\ Len(tree[n].data) = BucketBound(Len(n))
       /\ Len(tree[n].data) > BUCKET_SIZE

----------------------------------------------------------------------------
(* Properties of find_max_parallel and of the iterators *)

(* the discs of two maxima, each of the radius of its distance, overlap *)
DiscsOverlap(p, q) ==
  (p.point[1] - q.point[1]) * (p.point[1] - q.point[1])
    + (p.point[2] - q.point[2]) * (p.point[2] - q.point[2])
  < (p.distance + q.distance) * (p.distance + q.distance)

(* C16 as stated: no two maxima of a batch returned by find_max_parallel     *)
(* have overlapping discs.  The code violates it: the filter compares the    *)
(* distance between two maxima with the radius of the later one only.        *)
C16_BatchDisjoint ==
  \A i \in DOMAIN batch, j \in DOMAIN batch :
    i # j => ~DiscsOverlap(batch[i], batch[j])

C19_EndsOnEmptyBatch == ~pulled.after_empty

(* the threshold of the claim: distance >= sqrt(2) / (2 * resolution) *)
AboveThreshold(d) ==
  d >= 0 /\ (2 * resolution * d) * (2 * resolution * d) >= 2 * One * One

(* C18: every step of the DDF placement iterator that yields, yields the     *)
(* find_max() of the moment and that maximum is at or above the threshold;   *)
(* the iterator ends at a find_max() below the threshold; once it has ended  *)
(* it stays ended and yields nothing.                                        *)
C18_TakeWhile ==
  [][/\ Len(placed') > Len(placed) =>
          /\ ~iter_done /\ ~iter_done'
          /\ AboveThreshold(find_max.distance)
          /\ last'.m = find_max
     /\ (iter_done' /\ ~iter_done) =>
          /\ ~AboveThreshold(find_max.distance)
          /\ placed' = placed
     /\ iter_done => (iter_done' /\ placed' = placed)]_vars

(* the iterator has ended after it had yielded *)
C18_Witness ==
  /\ iter_done
  /\ Len(placed) >= 1
  /\ last.op = "end"
  /\ ~AboveThreshold(last.m.distance)

(* C20: the fractal run driven by the threshold iterator ends, and when it   *)
(* has ended find_max().distance is below the threshold.                     *)
C20_FractalTerminates ==
  (result = "ok") ~> (iter_done /\ ~AboveThreshold(find_max.distance))

(* the run on the 4 x 4 grid has ended after its five circles *)
C20_Witness ==
  /\ iter_done
  /\ resolution = 4
  /\ Len(placed) >= 5
  /\ ~AboveThreshold(find_max.distance)

----------------------------------------------------------------------------
(* The parallel regions of the DDF, one tile worker at a time: the rayon     *)
(* for_each of insert_sdf_domain and invert.  A worker that received a tile  *)
(* rewrites the cells of the tile's slice and the tile's cache entry through *)
(* raw pointers; par_call counts the writes to every cell and entry.         *)

(* ZOrderStorage::chunks_domain_par_iter: the chunk coordinates it yields *)
chunk_span_xy(domain) ==
  LET s == ChunkSpanRaw(domain)
  IN {<<cx, cy>> : cx \in s.minx..(s.maxx - 1), cy \in s.miny..(s.maxy - 1)}

(* ZOrderStorage::chunks_par_iter: the chunk ids it yields *)
chunks_par_iter == ChunkIds

(* a variant that numbers the chunk by the sum of its coordinates *)
get_chunk_xy_sum(xy) == xy[1] + xy[2]

(* ZOrderStorage::get_chunk_xy: the id of the chunk at chunk coordinates xy *)
get_chunk_xy(xy) == xy_to_offset(xy, resolution \div chunk_size)

(* the tile a task of the region in flight stands for *)
task_chunk(task) ==
  IF par_call.op = "insert" THEN get_chunk_xy(task) ELSE task

(* Chunk.slice of ZOrderStorage::get_chunk: the cells of the tile *)
chunk_slice(id) == {slice_index(id, o) : o \in Offsets}

NoWrites(map) == [i \in DOMAIN map |-> 0]

(* Argmax2D::insert_sdf_domain up to the for_each: the tasks are handed out *)
par_insert_sdf_domain(domain, f) ==
  /\ Ready
  /\ par_call.pending = {}
  /\ nops' = nops + 1
  /\ IF SpanPanics(domain)
       THEN /\ panicked' = TRUE
            /\ UNCHANGED <<par_call, inserted, applied>>
       ELSE /\ par_call' = [op |-> "insert", domain |-> domain, f |-> f,
                            tasks |-> chunk_span_xy(domain),
                            pending |-> chunk_span_xy(domain),
                            cell_writes |-> NoWrites(dist_map),
                            cache_writes |-> NoWrites(chunk_argmax),
                            out_of_range |-> FALSE,
                            before |-> [map |-> dist_map, cache |-> chunk_argmax]]
            /\ inserted' = inserted \cup {f}
            /\ applied' = [id \in DOMAIN applied |->
                             IF id \in chunks_domain_par_iter(domain)
                               THEN applied[id] \cup {f} ELSE applied[id]]
            /\ UNCHANGED panicked
  /\ UNCHANGED <<result, resolution, chunk_size, dist_map, chunk_argmax, ninvert,
                 iter_done, last, placed, adfvars, search>>

(* Argmax2D::invert up to the for_each *)
par_invert ==
  /\ Ready
  /\ par_call.pending = {}
  /\ nops' = nops + 1
  /\ ninvert' = ninvert + 1
  /\ par_call' = [op |-> "invert", domain |-> WholeDomain, f |-> BoundaryPrim,
                  tasks |-> chunks_par_iter,
                  pending |-> chunks_par_iter,
                  cell_writes |-> NoWrites(dist_map),
                  cache_writes |-> NoWrites(chunk_argmax),
                  out_of_range |-> FALSE,
                  before |-> [map |-> dist_map, cache |-> chunk_argmax]]
  /\ UNCHANGED <<result, resolution, chunk_size, dist_map, chunk_argmax, panicked,
                 inserted, applied, iter_done, last, placed, adfvars, search>>

(* the value a worker stores in a cell of its tile *)
worker_value(id, o) ==
  IF par_call.op = "insert" THEN LoweredValue(dist_map, id, o, par_call.f)
  ELSE -dist_map[slice_index(id, o)]

(* the closure of the for_each on one task: get_chunk, pixels_mut, max,      *)
(* write_cache.  The slice of get_chunk panics when it leaves the storage    *)
(* (par_call.out_of_range).                                                  *)
tile_worker(task) ==
  /\ par_call.op \in {"insert", "invert"}
  /\ ~panicked
  /\ task \in par_call.pending
  /\ LET id == task_chunk(task)
     IN IF ~(chunk_slice(id) \subseteq DOMAIN dist_map)
          THEN /\ panicked' = TRUE
               /\ par_call' = [par_call EXCEPT !.pending = @ \ {task},
                                                !.out_of_range = TRUE]
               /\ UNCHANGED <<dist_map, chunk_argmax>>
          ELSE LET map2 == [i \in DOMAIN dist_map |->
                              IF i \in chunk_slice(id)
                                THEN worker_value(id, i % (chunk_size * chunk_size))
                                ELSE dist_map[i]]
               IN /\ dist_map' = map2
                  /\ chunk_argmax' = write_cache(chunk_argmax, map2, {id})
                  /\ par_call' =
                       [par_call EXCEPT
                          !.pending = @ \ {task},
                          !.cell_writes = [i \in DOMAIN @ |->
                             IF i \in chunk_slice(id) THEN @[i] + 1 ELSE @[i]],
                          !.cache_writes = [c \in DOMAIN @ |->
                             IF c = id THEN @[c] + 1 ELSE @[c]]]
                  /\ UNCHANGED panicked
  /\ UNCHANGED <<result, resolution, chunk_size, inserted, applied, ninvert, nops,
                 iter_done, last, placed, adfvars, search>>

TileConfigs == {<<2, 1>>, <<4, 2>>, <<2, 2>>}

TileDomains ==
  {WholeDomain,
   [ox |-> One \div 2, oy |-> 0, w |-> One \div 2, h |-> One \div 2],
   [ox |-> 0, oy |-> 0, w |-> One \div 4, h |-> One],
   [ox |-> -One, oy |-> 0, w |-> One \div 2, h |-> One \div 2]}

TilePrims == {BoundaryPrim, CirclePrim(<<One \div 2, One \div 2>>, One \div 4)}

NextTiles ==
  \/ \E rc \in TileConfigs : New(rc[1], rc[2])
  \/ \E d \in TileDomains, f \in TilePrims : par_insert_sdf_domain(d, f)
  \/ par_invert
  \/ \E task \in par_call.pending : tile_worker(task)

SpecTiles == Init /\ [][NextTiles]_vars

(* what the region in flight amounts to when it is run as one step *)
RegionResult ==
  IF par_call.op = "insert"
    THEN LET ids == chunks_domain_par_iter(par_call.domain)
             map2 == InsertedMap(par_call.before.map, ids, par_call.f)
         IN [map |-> map2, cache |-> write_cache(par_call.before.cache, map2, ids)]
    ELSE [map |-> InvertedMap(par_call.before.map),
          cache |-> InvertedCache(par_call.before.cache,
                                  InvertedMap(par_call.before.map))]

(* C21: in one insert_sdf_domain or invert call no cell and no cache entry  *)
(* is written by two workers, every tile of the span is processed exactly   *)
(* once, and when the workers are done the cells and the cache are what the *)
(* call gives when run as one step, whatever the order of the workers.      *)
C21_TilesDisjoint ==
  (par_call.op \in {"insert", "invert"}) =>
    /\ \A i \in DOMAIN par_call.cell_writes : par_call.cell_writes[i] <= 1
    /\ \A c \in DOMAIN par_call.cache_writes : par_call.cache_writes[c] <= 1
    /\ ~par_call.out_of_range
    /\ par_call.pending = {} =>
         /\ \A task \in par_call.tasks :
              /\ par_call.cache_writes[task_chunk(task)] = 1
              /\ \A i \in chunk_slice(task_chunk(task)) : par_call.cell_writes[i] = 1
         /\ dist_map = RegionResult.map
         /\ chunk_argmax = RegionResult.cache

C21_Witness ==
  /\ par_call.op = "insert" /\ par_call.pending = {}
  /\ Cardinality(par_call.tasks) = 4
  /\ nops = 2
  /\ dist_map # par_call.before.map

----------------------------------------------------------------------------
(* ADF::insert_sdf_domain, one call of the closure at a time:               *)
(* traverse_managed_parallel calls the closure on the root and, when it     *)
(* answers Ok, hands the four children to rayon workers, which do the same. *)
(* par_call.pending holds the nodes whose closure call has not run yet.     *)

(* a variant in which the closure answers Ok after it subdivided the node *)
TraverseCommand_explore(v) == IF v \in {"ok", "subdivide"} THEN "Ok" ELSE "Skip"

(* the TraverseCommand the closure returns *)
TraverseCommand(v) == IF v = "ok" THEN "Ok" ELSE "Skip"

(* a variant in which every pointer of children_ptr is the first child's *)
children_ptr_first(path) == {Append(path, 0)}

(* traverse_managed_parallel_a: children_ptr, the tasks of the for_each *)
children_ptr(path) == {Append(path, q) : q \in 0..3}

(* p is path or lies below it *)
IsPrefix(path, p) == Len(path) <= Len(p) /\ SubSeq(p, 1, Len(path)) = path

(* the nodes in which two trees differ *)
Changed(t1, t2) ==
  {n \in DOMAIN t1 \cup DOMAIN t2 :
     n \notin DOMAIN t1 \/ n \notin DOMAIN t2 \/ t1[n] # t2[n]}

(* ADF::insert_sdf_domain up to the call of the closure on the root *)
par_adf_insert_sdf_domain(domain, f) ==
  /\ oracle # "none"
  /\ ~adf_panicked
  /\ adf_ops < MaxAdfOps
  /\ par_call.pending = {}
  /\ par_call' = [op |-> "adf_insert", domain |-> domain, f |-> f,
                  pending |-> {<<>>}, visited |-> {}, revisited |-> FALSE,
                  foreign_write |-> FALSE, before |-> tree]
  /\ change_exists' = FALSE
  /\ tree_before' = tree
  /\ adf_inserted' = adf_inserted \cup {f}
  /\ adf_ops' = adf_ops + 1
  /\ UNCHANGED <<oracle, tree, max_depth, ipm_gd_lattice_density, adf_init,
                 covered, batch, pulled, candidates, adf_panicked>>
  /\ UNCHANGED <<ddfvars, last, placed, search>>

(* one worker: the closure on a pending node, then, on Ok, the tasks for    *)
(* the node's children                                                      *)
node_worker(path) ==
  /\ par_call.op = "adf_insert"
  /\ path \in par_call.pending
  /\ \E v \in {closure(tree, path, par_call.domain, par_call.f)} :
     \E t2 \in {VisitedTree(tree, [n \in DOMAIN tree |->
                                    IF n = path THEN v ELSE "skip"], par_call.f)} :
     LET spawned == IF TraverseCommand(v) = "Ok" /\ t2[path].children
                      THEN children_ptr(path) ELSE {}
     IN /\ tree' = t2
        /\ change_exists' =
             (change_exists \/ v \in {"replace", "append", "subdivide"})
        /\ par_call' =
             [par_call EXCEPT
                !.pending = (@ \ {path}) \cup spawned,
                !.visited = @ \cup {path},
                !.revisited =
                  (@ \/ path \in par_call.visited
                     \/ spawned \cap (par_call.visited \cup par_call.pending) # {}),
                !.foreign_write =
                  (@ \/ \E n \in Changed(tree, t2) : ~IsPrefix(path, n))]
  /\ UNCHANGED <<oracle, max_depth, ipm_gd_lattice_density, tree_before,
                 adf_inserted, adf_init, covered, adf_ops, batch, pulled,
                 candidates, adf_panicked>>
  /\ UNCHANGED <<ddfvars, last, placed, search>>

ParDepths == {1, 2}

ParInits ==
  {<<BoundaryPrim, CirclePrim(<<One \div 2, One \div 2>>, One \div 8),
     CirclePrim(<<One \div 4, (3 * One) \div 4>>, One \div 8)>>}

ParPrims ==
  {CirclePrim(<<(3 * One) \div 4, One \div 2>>, One \div 8),
   CirclePrim(<<One \div 4, One \div 4>>, One \div 8)}

NextADFPar ==
  \/ \E d \in ParDepths, i \in ParInits : ADF_new(d, i, 1)
  \/ \E d \in ADFDomains, f \in ParPrims : par_adf_insert_sdf_domain(d, f)
  \/ \E path \in par_call.pending : node_worker(path)

SpecADFPar == Init /\ [][NextADFPar]_vars

(* what the call in flight amounts to when it is run as one step *)
TraversalResult ==
  LET visits == [n \in DOMAIN par_call.before |->
                   visit(par_call.before, n, par_call.domain, par_call.f)]
  IN [tree |-> VisitedTree(par_call.before, visits, par_call.f),
      flag |-> ChangeFlag(visits)]

(* C22: in one ADF insert_sdf_domain call every node is visited at most     *)
(* once, a worker changes only the node it visits (and the children it      *)
(* creates for it), and when the workers are done the tree and the returned *)
(* flag are those of the call run as one step, whatever the interleaving.   *)
C22_SubtreesDisjoint ==
  (par_call.op = "adf_insert") =>
    /\ ~par_call.revisited
    /\ ~par_call.foreign_write
    /\ par_call.pending = {} =>
         \A r \in {TraversalResult} :
           tree = r.tree /\ change_exists = r.flag

C22_Witness ==
  /\ par_call.op = "adf_insert" /\ par_call.pending = {}
  /\ Cardinality(par_call.visited) = 5
  /\ Cardinality(Changed(par_call.before, tree)) >= 2

(* the depth of the deepest node of a tree *)
TreeDepth(t) == SetMax({Len(n) : n \in DOMAIN t})

C27_OnlyIntersectingLeaves ==
  (par_call.op = "adf_insert") =>
    /\ \A n \in DOMAIN par_call.before :
         /\ ~intersects(NodeRect(n), par_call.domain) =>
              \A m \in Changed(par_call.before, tree) : ~IsPrefix(n, m)
         /\ par_call.before[n].children => tree[n] = par_call.before[n]
    /\ \A m \in Changed(par_call.before, tree) :
         \E n \in DOMAIN par_call.before :
           /\ ~par_call.before[n].children
           /\ intersects(NodeRect(n), par_call.domain)
           /\ m = n \/ (m \notin DOMAIN par_call.before /\ m \in children_ptr(n))

(* a call over the right half of the unit square that changed a leaf there  *)
(* and had leaves of the left half, which f would lower, to stay away from  *)
C27_Witness ==
  /\ par_call.op = "adf_insert" /\ par_call.pending = {}
  /\ par_call.domain # WholeDomain
  /\ Changed(par_call.before, tree) # {}
  /\ \E n \in DOMAIN par_call.before :
       /\ ~par_call.before[n].children
       /\ ~intersects(NodeRect(n), par_call.domain)

----------------------------------------------------------------------------
(* Configuration of the ADF: what ADF::new and with_gd_lattice_density      *)
(* accept                                                                   *)

NextADFConfig ==
  \/ \E d \in {0, 1, 2}, i \in {<<>>, <<BoundaryPrim>>}, n \in {0, 1} :
       ADF_new(d, i, n)
  \/ \E d \in ADFDomains, f \in ADFPrims : ADF_insert_sdf_domain(d, f)

SpecADFConfig == Init /\ [][NextADFConfig]_vars

(* C23: an ADF with an empty seed list or with lattice density 0 is         *)
(* rejected when it is constructed, and no later insert_sdf_domain is the   *)
(* first place where the configuration error shows.  The code accepts both  *)
(* and panics in sdf_partialord on the first insertion with density 0.      *)
C23_ConfigRejectedAtConstruction ==
  /\ oracle # "none" => (adf_init # <<>> /\ ipm_gd_lattice_density # 0)
  /\ ~adf_panicked

----------------------------------------------------------------------------
(* Further properties of the DDF under arbitrary operations (Spec) *)

(* the domain rectangle lies outside the unit square, on one of its sides *)
OutsideUnitSquare(domain) ==
  \/ domain.ox >= One \/ domain.ox + domain.w <= 0
  \/ domain.oy >= One \/ domain.oy + domain.h <= 0

(* C24: insert_sdf_domain with a domain entirely outside the unit square,   *)
(* on any side, completes and changes no cell and no cache entry.  The code *)
(* panics in chunks_domain_par_iter when the domain lies a chunk or more to *)
(* the left of or below the unit square.                                    *)
C24_OutsideNoUpdate ==
  [][(/\ nops' = nops + 1
      /\ last'.op = "insert_sdf_domain"
      /\ OutsideUnitSquare(last'.domain))
     => (/\ ~panicked'
         /\ dist_map' = dist_map
         /\ chunk_argmax' = chunk_argmax)]_vars

----------------------------------------------------------------------------
(* Properties of the embedded run (SpecEmbedded) *)

(* p lies in the interior of the circle f *)
InInterior(p, f) ==
  (p[1] - f.c[1]) * (p[1] - f.c[1]) + (p[2] - f.c[2]) * (p[2] - f.c[2]) < f.r * f.r

(* the sample points of the cells *)
Samples == {offset_to_xy_normalized(id, o) : id \in ChunkIds, o \in Offsets}

JustInverted == last.op = "invert" /\ ninvert = 1 /\ placed # <<>>

(* C25 as stated: after circles were placed in the seeded DDF and invert()  *)
(* was called, find_max().point lies outside the interior of every placed   *)
(* circle.                                                                  *)
C25_OutsideCircles ==
  JustInverted => \A i \in DOMAIN placed : ~InInterior(find_max.point, placed[i])

(* C25 amended: after the inversion find_max() is the sample deepest inside *)
(* the placed circles: whenever some sample lies in the interior of a       *)
(* placed circle, find_max().point lies in the interior of a placed circle  *)
(* and find_max().distance is positive; otherwise find_max().distance is 0. *)
C25_InsideCircles ==
  JustInverted =>
    IF \E p \in Samples : \E i \in DOMAIN placed : InInterior(p, placed[i])
      THEN /\ \E i \in DOMAIN placed : InInterior(find_max.point, placed[i])
           /\ find_max.distance > 0
      ELSE find_max.distance = 0

C25_Witness ==
  /\ JustInverted
  /\ Len(placed) = 2
  /\ \A i \in DOMAIN placed : \E p \in Samples : InInterior(p, placed[i])
  /\ \E i \in DOMAIN placed : ~InInterior(find_max.point, placed[i])

(* the pixel of a cell: Chunk::offset_to_xy plus the chunk's top_left *)
pixel_xy(id, o) ==
  LET xy == offset_to_xy(o, chunk_size)
      tl == top_left(id)
  IN <<xy[1] + tl[1], xy[2] + tl[2]>>

(* the centre of pixel xy in world coordinates *)
CellCentre(xy) ==
  <<((2 * xy[1] + 1) * One) \div (2 * resolution),
    ((2 * xy[2] + 1) * One) \div (2 * resolution)>>

(* C28: the world point at which the DDF samples an SDF for pixel (x, y),   *)
(* and which it reports as the point of a maximum, is the cell centre       *)
(* ((x + 1/2) / resolution, (y + 1/2) / resolution).  The code takes        *)
(* (x / resolution, y / resolution), the cell's corner.                     *)
C28_SampleAtCentre ==
  result = "ok" =>
    /\ \A id \in ChunkIds, o \in Offsets :
         offset_to_xy_normalized(id, o) = CellCentre(pixel_xy(id, o))
    /\ inserted # {} =>
         \E id \in ChunkIds, o \in Offsets :
           find_max.point = CellCentre(pixel_xy(id, o))

----------------------------------------------------------------------------
(* LineSearch::optimize, one iteration of its for loop at a time.  search   *)
(* holds the loop state and, as history, the position and step size every   *)
(* iteration started with.                                                  *)

MaxStepLimit == 3

(* step_limit: None *)
NoLimit == -1

StepLimits == 0..MaxStepLimit \cup {NoLimit}

(* LineSearch::grad(f, p) * step_size on the field of an ADF *)
grad_step(t, p, step_size) ==
  LET fp == ADF_sdf(t, p)
  IN <<RoundDiv((ADF_sdf(t, <<p[1] + Delta, p[2]>>) - fp) * step_size, Delta),
       RoundDiv((ADF_sdf(t, <<p[1], p[2] + Delta>>) - fp) * step_size, Delta)>>

(* grad.length() < self.Δ *)
BelowDelta(g) == g[1] * g[1] + g[2] * g[2] < Delta * Delta

(* a variant of the range that includes its end, 0..=step_limit *)
in_range_inclusive(i, step_limit) == step_limit = NoLimit \/ i <= step_limit

(* for _ in 0..self.step_limit.unwrap_or(u64::MAX): iteration i is in range *)
in_range(i, step_limit) == step_limit = NoLimit \/ i < step_limit

(* LineSearch { step_limit, ..Default::default() }.optimize(f, p) up to the loop *)
optimize_call(t, p, step_limit) ==
  /\ search.op = "none"
  /\ search' = [op |-> "optimize", f |-> t, start |-> p, step_limit |-> step_limit,
                p |-> p, step_size |-> initial_step_size, i |-> 0,
                updates |-> 0, trace |-> <<>>, done |-> FALSE]
  /\ UNCHANGED <<ddfvars, last, placed, adfvars, par_call>>

(* one turn of the for loop: leave it when the range is used up, break on a *)
(* short gradient step, move otherwise                                      *)
optimize_iteration ==
  /\ search.op = "optimize"
  /\ ~search.done
  /\ IF ~in_range(search.i, search.step_limit)
       THEN search' = [search EXCEPT !.done = TRUE]
       ELSE \E g \in {grad_step(search.f, search.p, search.step_size)} :
              LET started == Append(search.trace,
                                    [p |-> search.p, step_size |-> search.step_size])
              IN IF BelowDelta(g)
                   THEN search' = [search EXCEPT !.done = TRUE, !.trace = started]
                   ELSE search' = [search EXCEPT
                                     !.step_size = decay_factor(@),
                                     !.p = <<@[1] + g[1], @[2] + g[2]>>,
                                     !.i = @ + 1,
                                     !.updates = @ + 1,
                                     !.trace = started]
  /\ UNCHANGED <<ddfvars, last, placed, adfvars, par_call>>

SearchFields ==
  {Quadtree_new(<<BoundaryPrim>>),
   Quadtree_new(<<BoundaryPrim, CirclePrim(<<One \div 2, One \div 2>>, One \div 8)>>)}

SearchStarts ==
  {<<0, 0>>, <<(3 * One) \div 4, One \div 2>>, <<(3 * One) \div 4, One \div 4>>,
   <<One \div 2 + 8, One \div 2>>, <<100, 60>>}

NextSearch ==
  \/ \E t \in SearchFields, p \in SearchStarts, n \in StepLimits :
       optimize_call(t, p, n)
  \/ optimize_iteration

SpecSearch == Init /\ [][NextSearch]_vars

(* C29: optimize with step_limit = n updates the position at most n times   *)
(* and returns the position reached (the start point for n = 0); it stops   *)
(* earlier at the first iteration whose step g is shorter than delta, and   *)
(* that iteration does not move p.                                          *)
C29_StepLimit ==
  LET TraceStep(k) ==
        grad_step(search.f, search.trace[k].p, search.trace[k].step_size)
      TraceNext(k) ==
        IF k < Len(search.trace) THEN search.trace[k + 1].p ELSE search.p
  IN
  (search.op = "optimize") =>
    /\ search.step_limit # NoLimit => search.updates <= search.step_limit
    /\ \A k \in DOMAIN search.trace :
         IF BelowDelta(TraceStep(k))
           THEN /\ k = Len(search.trace) /\ search.done
                /\ search.p = search.trace[k].p
           ELSE TraceNext(k) = <<search.trace[k].p[1] + TraceStep(k)[1],
                                 search.trace[k].p[2] + TraceStep(k)[2]>>
    /\ search.done =>
         /\ \/ search.updates = search.step_limit
            \/ /\ search.trace # <<>>
               /\ BelowDelta(TraceStep(Len(search.trace)))
         /\ search.step_limit = 0 => search.p = search.start
         /\ search.step_limit = NoLimit =>
              search.p = optimize(search.f, search.start, initial_step_size)

(* a call that used up its step limit while the step was still long *)
C29_Witness ==
  /\ search.op = "optimize" /\ search.done
  /\ search.step_limit = 2 /\ search.updates = 2
  /\ ~BelowDelta(grad_step(search.f, search.p, search.step_size))

----------------------------------------------------------------------------
(* Two insertions in a row on the DDF.  last keeps the DDF each of the two  *)
(* calls started from, so that the other order can be computed from the     *)
(* same state.                                                              *)

(* Argmax2D::insert_sdf_domain as a function of the DDF it is called on; a  *)
(* call that panics leaves the grid as it is, no call follows a panic       *)
Inserted(s, domain, f) ==
  IF s.panicked THEN s
  ELSE IF SpanPanics(domain) THEN [s EXCEPT !.panicked = TRUE]
  ELSE LET ids == chunks_domain_par_iter(domain)
           map2 == InsertedMap(s.map, ids, f)
       IN [map |-> map2, cache |-> write_cache(s.cache, map2, ids),
           panicked |-> FALSE]

(* Argmax2D::insert_sdf_domain, remembering the call before it *)
insert_sdf_domain_after(domain, f) ==
  /\ Ready
  /\ DoInsert(domain, f)
  /\ LET DDFState == [map |-> dist_map, cache |-> chunk_argmax,
                      panicked |-> panicked]
     IN last' = [op |-> "insert_sdf_domain", domain |-> domain, f |-> f,
               before |-> DDFState,
               second |-> (last.op = "insert_sdf_domain"),
               prev |-> IF last.op = "insert_sdf_domain"
                          THEN [domain |-> last.domain, f |-> last.f,
                                before |-> last.before]
                          ELSE [domain |-> domain, f |-> f, before |-> DDFState]]
  /\ UNCHANGED <<placed, adfvars>>

NextCommute ==
  \/ \E r \in Resolutions, c \in ChunkSizes : New(r, c)
  \/ \E d \in Domains, f \in Prims : insert_sdf_domain_after(d, f)

SpecCommute == Init /\ [][NextCommute]_vars

(* C30: after two insertions (D1, f1), (D2, f2) in a row the cell values    *)
(* and the per-tile cache are those that (D2, f2) followed by (D1, f1)      *)
(* gives from the same state, and after the same insertion twice they are   *)
(* those after the first of the two calls.                                  *)
C30_CommuteIdempotent ==
  (last.op = "insert_sdf_domain" /\ last.second) =>
    \A swapped \in {Inserted(Inserted(last.prev.before, last.domain, last.f),
                             last.prev.domain, last.prev.f)} :
      /\ dist_map = swapped.map
      /\ chunk_argmax = swapped.cache
      /\ (last.domain = last.prev.domain /\ last.f = last.prev.f) =>
           /\ dist_map = last.before.map
           /\ chunk_argmax = last.before.cache

====
